---- MODULE Spec2Model ----
(***************************************************************************)
(* tools/generate_ruleset.py: reads forbidden-extensions.txt, drops blank  *)
(* and comment lines, prefixes every remaining token with "*.", embeds the *)
(* pattern list twice in a fixed GitHub ruleset and prints it as YAML.     *)
(*                                                                         *)
(* A Python str is modelled as a sequence of pieces: a character of the    *)
(* input file is one piece, and a string literal of the script is a single *)
(* piece holding the literal (Text).                                       *)
(***************************************************************************)
EXTENDS Integers, Sequences, FiniteSets, TLC

\* ------------------------------------------------------------------ bounds
\* Longest input file, in characters, of the single-run specification.
MaxFileLen == 5
\* Longest input file, in characters, of the two-run specification.
PairMaxFileLen == 3

\* ------------------------------------------------------------ input domain
\* Characters of the input: newline, another whitespace character, the
\* comment marker, and two token characters (a letter and the dot).
Newline == "\n"
Whitespace == {" ", Newline}
Alphabet == Whitespace \cup {"#", "e", "."}

RECURSIVE SeqsUpTo(_, _)
SeqsUpTo(S, n) ==
  IF n = 0 THEN {<< >>}
  ELSE LET shorter == SeqsUpTo(S, n - 1)
       IN shorter \cup {Append(s, c) : s \in shorter, c \in S}

\* What the environment holds under the fixed name forbidden-extensions.txt.
FileStates == {"ok", "missing", "denied", "undecodable"}

\* The two processes of the side-by-side specification; the single-run
\* specification only ever starts the first.
Runs == {1, 2}

VARIABLES
  fileState,   \* environment: whether the file can be opened and read
  file,        \* environment: the file's characters
  hashSeed,    \* per process: the interpreter's hash randomisation seed
  pc,          \* per process: position in the script
  handleOpen,  \* per process: f is open
  opens,       \* per process: number of times the file was acquired
  exc,         \* per process: pending exception ("" when none)
  lines,       \* per process: the script's `lines`
  idx,         \* per process: position of the for loop in `lines`
  patterns,    \* per process: the script's `patterns`
  ruleset,     \* per process: the script's `ruleset`
  text,        \* per process: result of yaml.dump
  stdout,      \* per process: what was printed, one element per print call
  stderr,      \* per process: tracebacks written by the interpreter
  exitCode,    \* per process: exit status (-1 while running)
  trace        \* per process: the phases performed so far, in order

vars == << fileState, file, hashSeed, pc, handleOpen, opens, exc, lines, idx,
           patterns, ruleset, text, stdout, stderr, exitCode, trace >>

\* ----------------------------------------------------------- str helpers
\* A string literal of the script.
Text(s) == << s >>

\* str.lstrip() / str.rstrip() / str.strip() with no argument.
RECURSIVE LStrip(_)
LStrip(s) ==
  IF s # << >> /\ Head(s) \in Whitespace THEN LStrip(Tail(s)) ELSE s

RECURSIVE RStrip(_)
RStrip(s) ==
  IF s # << >> /\ s[Len(s)] \in Whitespace
  THEN RStrip(SubSeq(s, 1, Len(s) - 1))
  ELSE s

StripTrailingOnly(s) == RStrip(s)

Strip(s) == RStrip(LStrip(s))

\* str.startswith
StartsWith(s, c) == s # << >> /\ Head(s) = c

\* file.readlines(): the content cut after every newline, newline kept.
RECURSIVE SplitLines(_, _)
SplitLines(rest, cur) ==
  IF rest = << >> THEN (IF cur = << >> THEN << >> ELSE << cur >>)
  ELSE IF Head(rest) = Newline
       THEN << Append(cur, Newline) >> \o SplitLines(Tail(rest), << >>)
       ELSE SplitLines(Tail(rest), Append(cur, Head(rest)))

ReadLinesOf(content) == SplitLines(content, << >>)

\* ------------------------------------------------------- Python values
\* A list object: its identity (two references to one list object carry the
\* same id) and its items.
List(id, items) == [id |-> id, items |-> items]

\* f"*.{line}"
Pattern(line) == << "*", "." >> \o line

\* `not line or line.startswith("#")`
Skip(line) == line = << >> \/ StartsWith(line, "#")

\* patterns.append(...)
EmitDedup(pats, line) ==
  IF \E i \in 1..Len(pats) : pats[i] = Pattern(line)
  THEN pats
  ELSE Append(pats, Pattern(line))

Emit(pats, line) == Append(pats, Pattern(line))

\* The list object bound to `patterns`.
PatternList(p) == List("patterns", p)

\* The same strings with the "*." prefix missing, in a list of their own.
RECURSIVE Bare(_)
Bare(p) ==
  IF p = << >> THEN << >>
  ELSE << SubSeq(Head(p), 3, Len(Head(p))) >> \o Bare(Tail(p))

BareList(p) == List("extensions", Bare(p))

\* The dict literal of the script, with its two references to a list and
\* its enforcement left open. Nested dicts are records; `rules` is a list of
\* one dict.
RulesetOf(included, enforcement, restricted) ==
  [ name |-> Text("Block Forbidden File Types"),
    target |-> Text("push"),
    enforcement |-> Text(enforcement),
    conditions |->
      [ file_paths |-> [ included |-> included ],
        branches |-> [ includes |-> List("includes", << Text("*") >>) ] ],
    rules |->
      << [ type |-> Text("file_path_restriction"),
           parameters |-> [ restricted_file_patterns |-> restricted ] ] >> ]

RulesetUnsynced(p) == RulesetOf(PatternList(p), "active", BareList(p))

RulesetByInput(p) ==
  RulesetOf(PatternList(p), IF p = << >> THEN "disabled" ELSE "active",
            PatternList(p))

\* ruleset = {...}: both references are to the list bound to `patterns`.
Ruleset(p) == RulesetOf(PatternList(p), "active", PatternList(p))

\* `ruleset` before the assignment.
Unbound == RulesetOf(List("", << >>), "", List("", << >>))

\* ---------------------------------------------------------- yaml.dump
\* The serialized document is modelled as its node entries in the order
\* they are written: the start of a mapping, a scalar with its value, the
\* start of a sequence (with an anchor when the list object occurs a second
\* time in the document), or an alias to an anchored sequence. The path of
\* an entry is the keys (and item indexes) leading to it. Mappings are
\* written in the order the dict literal gives their keys (sort_keys=False).
\* The anchor is named after the list object (PyYAML numbers it, id001).
\* Quoting and escaping of scalars are not modelled: a scalar entry holds
\* the string a reader gets back.
Entry(path, kind, anchor, v) ==
  [path |-> path, kind |-> kind, anchor |-> anchor, v |-> v]

\* The items of a sequence of strings, from the i-th on.
RECURSIVE Items(_, _, _)
Items(path, items, i) ==
  IF i > Len(items) THEN << >>
  ELSE << Entry(Append(path, ToString(i - 1)), "scalar", "", items[i]) >>
         \o Items(path, items, i + 1)

\* A list of strings written for the first time.
Sequence(path, l, anchored) ==
  << Entry(path, "seq", IF anchored THEN l.id ELSE "", << >>) >>
    \o Items(path, l.items, 1)

IncludedPath == << "conditions", "file_paths", "included" >>
RestrictedPath == << "rules", "0", "parameters", "restricted_file_patterns" >>

\* yaml.dump(ruleset, sort_keys=False)
YamlDump(d) ==
  << Entry(<< >>, "map", "", << >>),
     Entry(<< "name" >>, "scalar", "", d.name),
     Entry(<< "target" >>, "scalar", "", d.target),
     Entry(<< "enforcement" >>, "scalar", "", d.enforcement),
     Entry(<< "conditions" >>, "map", "", << >>),
     Entry(<< "conditions", "file_paths" >>, "map", "", << >>) >>
  \o Sequence(IncludedPath, d.conditions.file_paths.included,
              d.rules[1].parameters.restricted_file_patterns.id
                = d.conditions.file_paths.included.id)
  \o << Entry(<< "conditions", "branches" >>, "map", "", << >>) >>
  \o Sequence(<< "conditions", "branches", "includes" >>,
              d.conditions.branches.includes, FALSE)
  \o << Entry(<< "rules" >>, "seq", "", << >>),
        Entry(<< "rules", "0" >>, "map", "", << >>),
        Entry(<< "rules", "0", "type" >>, "scalar", "", d.rules[1].type),
        Entry(<< "rules", "0", "parameters" >>, "map", "", << >>) >>
  \o (IF d.rules[1].parameters.restricted_file_patterns.id
           = d.conditions.file_paths.included.id
      THEN << Entry(RestrictedPath, "alias",
                    d.conditions.file_paths.included.id, << >>) >>
      ELSE Sequence(RestrictedPath,
                    d.rules[1].parameters.restricted_file_patterns, FALSE))

\* --------------------------------------------- the document, as read back
\* What a YAML reader finds in a serialized document at a path.
HasPath(doc, path) == \E i \in 1..Len(doc) : doc[i].path = path

EntryAt(doc, path) == doc[CHOOSE i \in 1..Len(doc) : doc[i].path = path]

\* An alias stands for the sequence that carries its anchor.
Resolve(doc, path) ==
  IF EntryAt(doc, path).kind = "alias"
  THEN doc[CHOOSE i \in 1..Len(doc) :
             /\ doc[i].kind = "seq"
             /\ doc[i].anchor = EntryAt(doc, path).anchor].path
  ELSE path

ScalarAt(doc, path) == EntryAt(doc, path).v

\* One field of every entry of a sequence of entries.
RECURSIVE Field(_, _)
Field(es, f) ==
  IF es = << >> THEN << >> ELSE << Head(es)[f] >> \o Field(Tail(es), f)

IsItemOf(e, path) ==
  Len(e.path) = Len(path) + 1 /\ SubSeq(e.path, 1, Len(path)) = path

\* The scalar items of the sequence at `path`, in order.
SeqAt(doc, path) ==
  Field(SelectSeq(doc, LAMBDA e : IsItemOf(e, Resolve(doc, path))), "v")

\* The number of items of the sequence at `path`, whatever they are.
LenAt(doc, path) ==
  Len(SelectSeq(doc, LAMBDA e : IsItemOf(e, Resolve(doc, path))))

\* -------------------------------------------------------------- actions
env == << fileState, file, hashSeed >>

Log(r, phase) == trace' = [trace EXCEPT ![r] = Append(@, phase)]

\* A variant of Open that falls back to an empty list when open() fails.
OpenOrEmpty(r) ==
  /\ pc[r] = "start"
  /\ Log(r, "open")
  /\ IF fileState \in {"missing", "denied"}
     THEN /\ lines' = [lines EXCEPT ![r] = << >>]
          /\ pc' = [pc EXCEPT ![r] = "init"]
          /\ UNCHANGED << handleOpen, opens >>
     ELSE /\ handleOpen' = [handleOpen EXCEPT ![r] = TRUE]
          /\ opens' = [opens EXCEPT ![r] = @ + 1]
          /\ pc' = [pc EXCEPT ![r] = "read"]
          /\ UNCHANGED lines
  /\ UNCHANGED << env, exc, idx, patterns, ruleset, text, stdout, stderr,
                  exitCode >>

\* open("forbidden-extensions.txt"): acquires the handle, or raises.
Open(r) ==
  /\ pc[r] = "start"
  /\ Log(r, "open")
  /\ IF fileState \in {"missing", "denied"}
     THEN /\ exc' = [exc EXCEPT ![r] =
                       IF fileState = "missing" THEN "FileNotFoundError"
                       ELSE "PermissionError"]
          /\ pc' = [pc EXCEPT ![r] = "raise"]
          /\ UNCHANGED << handleOpen, opens >>
     ELSE /\ handleOpen' = [handleOpen EXCEPT ![r] = TRUE]
          /\ opens' = [opens EXCEPT ![r] = @ + 1]
          /\ pc' = [pc EXCEPT ![r] = "read"]
          /\ UNCHANGED exc
  /\ UNCHANGED << env, lines, idx, patterns, ruleset, text, stdout, stderr,
                  exitCode >>

\* A variant of ReadLines outside any with block: f is never closed.
ReadLinesNoWith(r) ==
  /\ pc[r] = "read"
  /\ Log(r, "read")
  /\ IF fileState = "undecodable"
     THEN /\ exc' = [exc EXCEPT ![r] = "UnicodeDecodeError"]
          /\ pc' = [pc EXCEPT ![r] = "raise"]
          /\ UNCHANGED lines
     ELSE /\ lines' = [lines EXCEPT ![r] = ReadLinesOf(file)]
          /\ pc' = [pc EXCEPT ![r] = "init"]
          /\ UNCHANGED exc
  /\ UNCHANGED << env, handleOpen, opens, idx, patterns, ruleset, text,
                  stdout, stderr, exitCode >>

\* lines = f.readlines(): binds `lines`, or raises inside the with block.
\* Either way control passes to the with statement's exit.
ReadLines(r) ==
  /\ pc[r] = "read"
  /\ Log(r, "read")
  /\ IF fileState = "undecodable"
     THEN /\ exc' = [exc EXCEPT ![r] = "UnicodeDecodeError"]
          /\ UNCHANGED lines
     ELSE /\ lines' = [lines EXCEPT ![r] = ReadLinesOf(file)]
          /\ UNCHANGED exc
  /\ pc' = [pc EXCEPT ![r] = "with_exit"]
  /\ UNCHANGED << env, handleOpen, opens, idx, patterns, ruleset, text,
                  stdout, stderr, exitCode >>

\* A variant of CloseFile that closes with f.close() after the read instead
\* of a with block: an exception skips the close.
CloseFileOnSuccessOnly(r) ==
  /\ pc[r] = "with_exit"
  /\ IF exc[r] # ""
     THEN /\ pc' = [pc EXCEPT ![r] = "raise"]
          /\ UNCHANGED << handleOpen, trace >>
     ELSE /\ Log(r, "close")
          /\ handleOpen' = [handleOpen EXCEPT ![r] = FALSE]
          /\ pc' = [pc EXCEPT ![r] = "init"]
  /\ UNCHANGED << env, opens, exc, lines, idx, patterns, ruleset, text,
                  stdout, stderr, exitCode >>

\* End of the with block: f is closed, then a pending exception propagates.
CloseFile(r) ==
  /\ pc[r] = "with_exit"
  /\ Log(r, "close")
  /\ handleOpen' = [handleOpen EXCEPT ![r] = FALSE]
  /\ pc' = [pc EXCEPT ![r] = IF exc[r] # "" THEN "raise" ELSE "init"]
  /\ UNCHANGED << env, opens, exc, lines, idx, patterns, ruleset, text,
                  stdout, stderr, exitCode >>

\* patterns = [] and the start of the for loop.
InitPatterns(r) ==
  /\ pc[r] = "init"
  /\ Log(r, "transform")
  /\ patterns' = [patterns EXCEPT ![r] = << >>]
  /\ idx' = [idx EXCEPT ![r] = 1]
  /\ pc' = [pc EXCEPT ![r] = "loop"]
  /\ UNCHANGED << env, handleOpen, opens, exc, lines, ruleset, text, stdout,
                  stderr, exitCode >>

\* A variant of LoopStep that tests `line[0] == "#"` before the emptiness
\* test: a blank line raises IndexError.
LoopStepIndexError(r) ==
  /\ pc[r] = "loop"
  /\ idx[r] <= Len(lines[r])
  /\ LET line == Strip(lines[r][idx[r]])
     IN IF line = << >>
        THEN /\ exc' = [exc EXCEPT ![r] = "IndexError"]
             /\ pc' = [pc EXCEPT ![r] = "raise"]
             /\ UNCHANGED << patterns, idx >>
        ELSE /\ patterns' = [patterns EXCEPT ![r] =
                               IF Skip(line) THEN @ ELSE Emit(@, line)]
             /\ idx' = [idx EXCEPT ![r] = @ + 1]
             /\ UNCHANGED << exc, pc >>
  /\ UNCHANGED << env, handleOpen, opens, lines, ruleset, text, stdout,
                  stderr, exitCode, trace >>

\* One iteration of `for line in lines`.
LoopStep(r) ==
  /\ pc[r] = "loop"
  /\ idx[r] <= Len(lines[r])
  /\ LET line == Strip(lines[r][idx[r]])
     IN patterns' = [patterns EXCEPT ![r] =
                       IF Skip(line) THEN @ ELSE Emit(@, line)]
  /\ idx' = [idx EXCEPT ![r] = @ + 1]
  /\ UNCHANGED << env, pc, handleOpen, opens, exc, lines, ruleset, text,
                  stdout, stderr, exitCode, trace >>

\* A variant of BuildRuleset that refuses an empty pattern list.
BuildRulesetRejectEmpty(r) ==
  /\ pc[r] = "loop"
  /\ idx[r] > Len(lines[r])
  /\ IF patterns[r] = << >>
     THEN /\ exc' = [exc EXCEPT ![r] = "ValueError"]
          /\ pc' = [pc EXCEPT ![r] = "raise"]
          /\ UNCHANGED ruleset
     ELSE /\ ruleset' = [ruleset EXCEPT ![r] = Ruleset(patterns[r])]
          /\ pc' = [pc EXCEPT ![r] = "dump"]
          /\ UNCHANGED exc
  /\ UNCHANGED << env, handleOpen, opens, lines, idx, patterns, text, stdout,
                  stderr, exitCode, trace >>

\* The loop is exhausted; ruleset = {...}.
BuildRuleset(r) ==
  /\ pc[r] = "loop"
  /\ idx[r] > Len(lines[r])
  /\ ruleset' = [ruleset EXCEPT ![r] = Ruleset(patterns[r])]
  /\ pc' = [pc EXCEPT ![r] = "dump"]
  /\ UNCHANGED << env, handleOpen, opens, exc, lines, idx, patterns, text,
                  stdout, stderr, exitCode, trace >>

RECURSIVE Reverse(_)
Reverse(s) == IF s = << >> THEN << >> ELSE Append(Reverse(Tail(s)), Head(s))

\* A variant of Serialize whose patterns went through a set: their order
\* follows the process's hash seed.
SerializeHashOrdered(r) ==
  /\ pc[r] = "dump"
  /\ Log(r, "serialize")
  /\ text' = [text EXCEPT ![r] =
                YamlDump(Ruleset(IF hashSeed[r] = 0 THEN patterns[r]
                                 ELSE Reverse(patterns[r])))]
  /\ pc' = [pc EXCEPT ![r] = "print"]
  /\ UNCHANGED << env, handleOpen, opens, exc, lines, idx, patterns, ruleset,
                  stdout, stderr, exitCode >>

\* yaml.dump(ruleset, sort_keys=False), the argument of print.
Serialize(r) ==
  /\ pc[r] = "dump"
  /\ Log(r, "serialize")
  /\ text' = [text EXCEPT ![r] = YamlDump(ruleset[r])]
  /\ pc' = [pc EXCEPT ![r] = "print"]
  /\ UNCHANGED << env, handleOpen, opens, exc, lines, idx, patterns, ruleset,
                  stdout, stderr, exitCode >>

\* print(...): the serialized document goes to standard output.
Write(r) ==
  /\ pc[r] = "print"
  /\ Log(r, "write")
  /\ stdout' = [stdout EXCEPT ![r] = Append(@, text[r])]
  /\ pc' = [pc EXCEPT ![r] = "exit"]
  /\ UNCHANGED << env, handleOpen, opens, exc, lines, idx, patterns, ruleset,
                  text, stderr, exitCode >>

\* End of the script: the interpreter exits with status 0.
Exit(r) ==
  /\ pc[r] = "exit"
  /\ Log(r, "exit")
  /\ exitCode' = [exitCode EXCEPT ![r] = 0]
  /\ pc' = [pc EXCEPT ![r] = "done"]
  /\ UNCHANGED << env, handleOpen, opens, exc, lines, idx, patterns, ruleset,
                  text, stdout, stderr >>

\* An exception nobody catches: traceback on standard error, status 1.
Abort(r) ==
  /\ pc[r] = "raise"
  /\ Log(r, "exit")
  /\ stderr' = [stderr EXCEPT ![r] = Append(@, exc[r])]
  /\ exitCode' = [exitCode EXCEPT ![r] = 1]
  /\ pc' = [pc EXCEPT ![r] = "failed"]
  /\ UNCHANGED << env, handleOpen, opens, exc, lines, idx, patterns, ruleset,
                  text, stdout >>

\* ------------------------------------------------------- specifications
\* The state of process r before its first statement.
Fresh(started) ==
  /\ pc = [r \in Runs |-> IF r \in started THEN "start" ELSE "off"]
  /\ handleOpen = [r \in Runs |-> FALSE]
  /\ opens = [r \in Runs |-> 0]
  /\ exc = [r \in Runs |-> ""]
  /\ lines = [r \in Runs |-> << >>]
  /\ idx = [r \in Runs |-> 1]
  /\ patterns = [r \in Runs |-> << >>]
  /\ ruleset = [r \in Runs |-> Unbound]
  /\ text = [r \in Runs |-> << >>]
  /\ stdout = [r \in Runs |-> << >>]
  /\ stderr = [r \in Runs |-> << >>]
  /\ exitCode = [r \in Runs |-> -1]
  /\ trace = [r \in Runs |-> << >>]

\* The environment: a readable file of at most n characters, or no usable
\* file at all.
Environment(n) ==
  /\ fileState \in FileStates
  /\ file \in (IF fileState = "ok" THEN SeqsUpTo(Alphabet, n) ELSE {<< >>})

\* One run of the script.
Init ==
  /\ Environment(MaxFileLen)
  /\ hashSeed \in {h \in [Runs -> {0, 1}] : h[2] = 0}
  /\ Fresh({1})

\* Two runs of the script over the same file, each its own process.
InitPair ==
  /\ Environment(PairMaxFileLen)
  /\ hashSeed \in [Runs -> {0, 1}]
  /\ Fresh(Runs)

Next ==
  \E r \in Runs :
    \/ Open(r)
    \/ ReadLines(r)
    \/ CloseFile(r)
    \/ InitPatterns(r)
    \/ LoopStep(r)
    \/ BuildRuleset(r)
    \/ Serialize(r)
    \/ Write(r)
    \/ Exit(r)
    \/ Abort(r)

Spec == Init /\ [][Next]_vars

PairSpec == InitPair /\ [][Next]_vars

\* ------------------------------------------------- what the claims say
\* The filter and the pattern, stated from the description of the tool
\* rather than through strip(): positions of the first and last character of
\* a line that is not whitespace.
IsBlankLine(l) == \A i \in 1..Len(l) : l[i] \in Whitespace

FirstInk(l) ==
  CHOOSE i \in 1..Len(l) :
    l[i] \notin Whitespace /\ \A j \in 1..(i - 1) : l[j] \in Whitespace

LastInk(l) ==
  CHOOSE i \in 1..Len(l) :
    l[i] \notin Whitespace /\ \A j \in (i + 1)..Len(l) : l[j] \in Whitespace

Trimmed(l) == IF IsBlankLine(l) THEN << >> ELSE SubSeq(l, FirstInk(l), LastInk(l))

IsCommentLine(l) == ~IsBlankLine(l) /\ l[FirstInk(l)] = "#"

Retained(l) == ~IsBlankLine(l) /\ ~IsCommentLine(l)

RetainedCount(ls) == Cardinality({i \in 1..Len(ls) : Retained(ls[i])})

RECURSIVE ExpectedPatterns(_)
ExpectedPatterns(ls) ==
  IF ls = << >> THEN << >>
  ELSE (IF Retained(Head(ls)) THEN << << "*", "." >> \o Trimmed(Head(ls)) >>
        ELSE << >>) \o ExpectedPatterns(Tail(ls))

Terminal == {"done", "failed"}

\* The documents process r has emitted.
Emitted(r) == {stdout[r][i] : i \in 1..Len(stdout[r])}

\* C1: the emitted pattern sequence is exactly "*." + trimmed line for the
\* retained lines, in input order, one per retained line, duplicates kept;
\* the list under construction is that sequence for the lines already seen.
C1_PatternsAreRetainedLines ==
  \A r \in Runs :
    /\ pc[r] \in {"loop", "dump", "print", "exit", "done"} =>
         patterns[r] = ExpectedPatterns(SubSeq(lines[r], 1, idx[r] - 1))
    /\ \A doc \in Emitted(r) :
         SeqAt(doc, IncludedPath) = ExpectedPatterns(lines[r])

\* C1 witness: a document was emitted for an input in which a token occurs
\* twice, and its pattern occurs twice in the output.
C1_Witness ==
  /\ pc[1] = "done"
  /\ \E i, j \in 1..Len(lines[1]) :
       i < j /\ Retained(lines[1][i]) /\ Trimmed(lines[1][i]) = Trimmed(lines[1][j])
  /\ \E doc \in Emitted(1) :
       \E i, j \in 1..LenAt(doc, IncludedPath) :
         i < j /\ SeqAt(doc, IncludedPath)[i] = SeqAt(doc, IncludedPath)[j]

\* C2: blank lines and comment lines (indented or not) contribute no
\* pattern: at no point are there more patterns than retained lines among
\* the lines processed, and no emitted sequence is longer than the number of
\* retained lines of the input.
C2_SkippedLinesYieldNothing ==
  \A r \in Runs :
    /\ Len(patterns[r]) <= RetainedCount(SubSeq(lines[r], 1, idx[r] - 1))
    /\ \A doc \in Emitted(r) :
         /\ LenAt(doc, IncludedPath) <= RetainedCount(lines[r])
         /\ LenAt(doc, RestrictedPath) <= RetainedCount(lines[r])

\* C2 witness: a document was emitted for an input holding an indented
\* comment line and a retained line, with fewer patterns than lines.
C2_Witness ==
  /\ pc[1] = "done"
  /\ \E i \in 1..Len(lines[1]) :
       IsCommentLine(lines[1][i]) /\ lines[1][i][1] \in Whitespace
  /\ \E i \in 1..Len(lines[1]) : Retained(lines[1][i])
  /\ \E doc \in Emitted(1) : LenAt(doc, IncludedPath) < Len(lines[1])

\* C3: in the serialized document and in every emitted document, the
\* sequence under conditions.file_paths.included and the sequence under
\* rules[0].parameters.restricted_file_patterns are the same.
C3_TwoLocationsAgree ==
  \A r \in Runs :
    /\ pc[r] = "print" =>
         SeqAt(text[r], IncludedPath) = SeqAt(text[r], RestrictedPath)
    /\ \A doc \in Emitted(r) :
         /\ HasPath(doc, IncludedPath)
         /\ HasPath(doc, RestrictedPath)
         /\ SeqAt(doc, IncludedPath) = SeqAt(doc, RestrictedPath)

\* C3 witness: an emitted document with two different patterns.
C3_Witness ==
  \E doc \in Emitted(1) :
    /\ LenAt(doc, RestrictedPath) = 2
    /\ SeqAt(doc, RestrictedPath)[1] # SeqAt(doc, RestrictedPath)[2]

\* How far process r is from its end: the statements still ahead, then the
\* lines the loop has still to visit.
Stage(r) ==
  CASE pc[r] = "start" -> 9
    [] pc[r] = "read" -> 8
    [] pc[r] = "with_exit" -> 7
    [] pc[r] = "init" -> 6
    [] pc[r] = "loop" -> 5
    [] pc[r] = "dump" -> 4
    [] pc[r] = "print" -> 3
    [] pc[r] = "exit" -> 2
    [] pc[r] = "raise" -> 1
    [] OTHER -> 0

LinesLeft(r) == IF pc[r] = "loop" THEN Len(lines[r]) + 1 - idx[r] ELSE 0

\* Every step of a process brings it closer to its end.
Progresses(r) ==
  \/ UNCHANGED << pc[r], idx[r] >>
  \/ Stage(r)' < Stage(r)
  \/ Stage(r)' = Stage(r) /\ LinesLeft(r)' < LinesLeft(r)

\* C4: when the file cannot be opened or read, the run cannot stop before
\* it has failed, it fails with a non-zero exit status, and at no point has
\* anything been written to standard output, nor a document been built.
C4_NoOutputOnFailure ==
  \A r \in Runs :
    (pc[r] # "off" /\ fileState # "ok") =>
      /\ stdout[r] = << >>
      /\ text[r] = << >>
      /\ ruleset[r] = Unbound
      /\ pc[r] \in {"start", "read", "with_exit", "raise", "failed"}
      /\ pc[r] = "failed" => exitCode[r] > 0 /\ stderr[r] # << >>
      /\ pc[r] # "failed" => ENABLED Next

\* C4 witness: a run that failed while reading, after a successful open.
C4_Witness ==
  /\ pc[1] = "failed"
  /\ fileState = "undecodable"
  /\ opens[1] = 1
  /\ stderr[1] # << >>

\* C5: when the file can be opened and read, whatever it holds, the run
\* never raises, cannot stop before it is done, gets closer to its end with
\* every step, and is done with exit status 0, nothing on standard error and
\* exactly one document on standard output.
C5_ReadableInputSucceeds ==
  /\ [](\A r \in Runs :
          (pc[r] # "off" /\ fileState = "ok") =>
            /\ pc[r] \notin {"raise", "failed"}
            /\ exc[r] = ""
            /\ stderr[r] = << >>
            /\ Len(stdout[r]) <= 1
            /\ pc[r] = "done" => exitCode[r] = 0 /\ Len(stdout[r]) = 1
            /\ pc[r] # "done" => ENABLED Next)
  /\ [][\A r \in Runs : Progresses(r)]_vars

\* C5 witness: a successful run over a file holding a blank line, a comment
\* line and a token.
C5_Witness ==
  /\ pc[1] = "done"
  /\ exitCode[1] = 0
  /\ \E i \in 1..Len(lines[1]) : IsBlankLine(lines[1][i])
  /\ \E i \in 1..Len(lines[1]) : Retained(lines[1][i])

OnlyBlankOrComment(content) ==
  \A i \in 1..Len(ReadLinesOf(content)) : ~Retained(ReadLinesOf(content)[i])

\* C6: an input of blank and comment lines only (or of no line) is no
\* error: the run does not fail, and when it is done it has exit status 0
\* and one document whose two pattern sequences are present and empty.
C6_EmptyPatternDocument ==
  \A r \in Runs :
    (fileState = "ok" /\ OnlyBlankOrComment(file)) =>
      /\ pc[r] \notin {"raise", "failed"}
      /\ pc[r] = "done" =>
           /\ exitCode[r] = 0
           /\ Len(stdout[r]) = 1
           /\ \A doc \in Emitted(r) :
                /\ EntryAt(doc, IncludedPath).kind = "seq"
                /\ HasPath(doc, RestrictedPath)
                /\ SeqAt(doc, IncludedPath) = << >>
                /\ SeqAt(doc, RestrictedPath) = << >>

\* C6 witness: a finished run over a file of one blank and one comment line.
C6_Witness ==
  /\ pc[1] = "done"
  /\ Len(lines[1]) = 2
  /\ \E i \in 1..2 : IsBlankLine(lines[1][i])
  /\ \E i \in 1..2 : IsCommentLine(lines[1][i])
  /\ stdout[1] # << >>

\* The paths of a document other than the items of the pattern sequence.
FixedPaths ==
  << << >>,
     << "name" >>, << "target" >>, << "enforcement" >>,
     << "conditions" >>,
     << "conditions", "file_paths" >>,
     << "conditions", "file_paths", "included" >>,
     << "conditions", "branches" >>,
     << "conditions", "branches", "includes" >>,
     << "conditions", "branches", "includes", "0" >>,
     << "rules" >>,
     << "rules", "0" >>,
     << "rules", "0", "type" >>,
     << "rules", "0", "parameters" >>,
     << "rules", "0", "parameters", "restricted_file_patterns" >> >>

Skeleton(doc) ==
  Field(SelectSeq(doc, LAMBDA e : ~IsItemOf(e, IncludedPath)), "path")

\* C7: every emitted document has the same shape and constants: name,
\* target, enforcement, conditions.branches.includes = ["*"], one rule of
\* type file_path_restriction; nothing but the pattern items varies.
C7_FixedShape ==
  \A r \in Runs : \A doc \in Emitted(r) :
    /\ Skeleton(doc) = FixedPaths
    /\ ScalarAt(doc, << "name" >>) = << "Block Forbidden File Types" >>
    /\ ScalarAt(doc, << "target" >>) = << "push" >>
    /\ ScalarAt(doc, << "enforcement" >>) = << "active" >>
    /\ SeqAt(doc, << "conditions", "branches", "includes" >>) = << << "*" >> >>
    /\ LenAt(doc, << "rules" >>) = 1
    /\ ScalarAt(doc, << "rules", "0", "type" >>) = << "file_path_restriction" >>

\* C7 witness: an emitted document that carries patterns, from an input
\* that also held a comment line.
C7_Witness ==
  /\ \E doc \in Emitted(1) : LenAt(doc, IncludedPath) > 0
  /\ \E i \in 1..Len(lines[1]) : IsCommentLine(lines[1][i])

\* C8: two runs over the same input emit the same document and end with
\* the same outcome, whatever their hash seeds and their interleaving.
C8_SameInputSameOutput ==
  /\ (stdout[1] # << >> /\ stdout[2] # << >>) => stdout[1] = stdout[2]
  /\ (pc[1] \in Terminal /\ pc[2] \in Terminal) =>
       /\ pc[1] = pc[2]
       /\ exitCode[1] = exitCode[2]
       /\ stdout[1] = stdout[2]
       /\ stderr[1] = stderr[2]

\* C8 witness: two finished runs with different hash seeds over an input
\* with two different tokens.
C8_Witness ==
  /\ pc[1] = "done" /\ pc[2] = "done"
  /\ hashSeed[1] # hashSeed[2]
  /\ Len(patterns[1]) = 2
  /\ patterns[1][1] # patterns[1][2]

\* C9: the file is acquired at most once, and in every final state, of a
\* success or of a failure, the handle is not held.
C9_HandleReleased ==
  \A r \in Runs :
    /\ opens[r] <= 1
    /\ pc[r] \in Terminal => ~handleOpen[r]

\* C9 witness: a run that failed while reading: the handle was acquired.
C9_Witness ==
  /\ pc[1] = "failed"
  /\ opens[1] = 1
  /\ exc[1] = "UnicodeDecodeError"

\* C10 as stated: a successful run closes the file after the document has
\* been written.
C10_CloseAfterWrite ==
  \A r \in Runs :
    pc[r] = "done" =>
      trace[r] = << "open", "read", "transform", "serialize", "write",
                    "close", "exit" >>

\* C10 as amended: a successful run opens, reads, closes, transforms,
\* serializes, writes and exits, in this order: the file is closed right
\* after the read, and never again open while later steps run.
C10_LinearOrder ==
  \A r \in Runs :
    /\ pc[r] = "done" =>
         trace[r] = << "open", "read", "close", "transform", "serialize",
                       "write", "exit" >>
    /\ pc[r] \in {"init", "loop", "dump", "print", "exit", "done"} =>
         ~handleOpen[r]

\* C10 witness: a successful run that emitted a document.
C10_Witness ==
  /\ pc[1] = "done"
  /\ stdout[1] # << >>
  /\ opens[1] = 1

====
